---- MODULE Spec2Model ----
(***************************************************************************)
(* Model of the Youtube Music skill (src/__init__.py): the query-resolution *)
(* engine (CPS_match_query_phrase and the functions it calls), the regex   *)
(* cache and the playback state.                                           *)
(*                                                                         *)
(* Text is a sequence of symbols: lower-case words and the single space    *)
(* " ".  Confidences are in hundredths (0.8 is 80).  A blocking call of    *)
(* the catalog client (self.yt.search) splits the handler into steps: the  *)
(* handler runs up to the search, and resumes when the search answers.     *)
(***************************************************************************)
EXTENDS Integers, Sequences, FiniteSets, TLC

VARIABLES
    regexes,            \* self.regexes: pattern name -> pattern text
    pc,                 \* position of the handler: "idle", a pending search, "done"
    phrase_in,          \* the phrase CPS_match_query_phrase was called with
    youtube_specified,  \* local of CPS_match_query_phrase
    phrase,             \* local of CPS_match_query_phrase after re.sub
    frame,              \* locals of the resolver waiting for its search
    results,            \* local of generic_query: the accumulator
    trace,              \* calls, searches and returns of the current handler run
    answer,             \* what the last search of the current run answered
    ret,                \* what CPS_match_query_phrase gave its caller
    files,              \* the pattern names find_resource finds a file for
    threads,            \* position and locals of each caller of translate_regex
    loader,             \* pattern name -> calls of find_resource so far
    stores,             \* pattern name -> writes of self.regexes[name] so far
    is_playing,         \* self.is_playing
    ducking,            \* self.ducking
    idle_count,         \* self.idle_count
    last_played_type,   \* self.last_played_type
    events,             \* the names of the repeating events that are scheduled
    intents,            \* are the playing intents enabled
    settings,           \* self.settings
    step,               \* the last handler of the playback state that ran
    started             \* has a CPS_start completed its dispatch so far

\* the state of the regex cache seen call by call
cacheVars == <<files, threads, loader, stores>>

\* the playback state
playVars == <<is_playing, ducking, idle_count, last_played_type, events,
              intents, settings, step, started>>

\* the locals of the query handler
queryVars == <<pc, phrase_in, youtube_specified, phrase, frame, results,
               trace, answer, ret>>

vars == <<regexes, pc, phrase_in, youtube_specified, phrase, frame, results,
          trace, answer, ret, files, threads, loader, stores, is_playing,
          ducking, idle_count, last_played_type, events, intents, settings,
          step, started>>

----------------------------------------------------------------------------
(* Bounds of the model                                                     *)

\* most ' by ' connectors in the text of an input phrase
MaxBy == 2
\* most records in one answer of the catalog search
MaxResults == 2

----------------------------------------------------------------------------
(* Python values                                                           *)

\* Python's None where a confidence is expected
None == -1

\* the float 0.0 that NOTHING_FOUND carries in its second place
FloatZero == [float |-> 0]

\* a 2-tuple (conf, data)
Tuple(c, d) == [kind |-> "tuple", conf |-> c, data |-> d]

\* the value None returned where a tuple is expected
PyNone == [kind |-> "None"]

NOTHING_FOUND == Tuple(None, FloatZero)

DIRECT_RESPONSE_CONFIDENCE == 80

MATCH_CONFIDENCE == 50

\* truth value of a confidence: None and 0.0 are false
ConfTruthy(c) == c # None /\ c # 0

\* truth value of a candidate: the float 0.0 is false, a non-empty dict true
DataTruthy(d) == d # FloatZero

\* dict.get('type')
GetType(d) == IF "type" \in DOMAIN d THEN d.type ELSE "None"

Min(a, b) == IF a < b THEN a ELSE b

----------------------------------------------------------------------------
(* Text                                                                    *)

SP == " "

\* 'w' in s, for a word w
Contains(s, w) == \E i \in 1..Len(s) : s[i] = w

IsPrefix(p, s) == Len(p) <= Len(s) /\ SubSeq(s, 1, Len(p)) = p

Drop(s, n) == SubSeq(s, n + 1, Len(s))

RECURSIVE LStrip(_)
LStrip(s) == IF s # <<>> /\ Head(s) = SP THEN LStrip(Tail(s)) ELSE s

RECURSIVE RStrip(_)
RStrip(s) == IF s # <<>> /\ s[Len(s)] = SP
             THEN RStrip(SubSeq(s, 1, Len(s) - 1)) ELSE s

\* str.strip()
Strip(s) == RStrip(LStrip(s))

\* str.split(sep): the pieces between the non-overlapping occurrences of sep,
\* found from the left
RECURSIVE SplitFrom(_, _, _)
SplitFrom(s, sep, cur) ==
    IF s = <<>> THEN <<cur>>
    ELSE IF IsPrefix(sep, s)
         THEN <<cur>> \o SplitFrom(Drop(s, Len(sep)), sep, <<>>)
         ELSE SplitFrom(Tail(s), sep, Append(cur, Head(s)))

Split(s, sep) == SplitFrom(s, sep, <<>>)

\* re.sub(literal, '', s): every non-overlapping occurrence removed
RECURSIVE RemoveAll(_, _)
RemoveAll(s, lit) ==
    IF s = <<>> THEN <<>>
    ELSE IF IsPrefix(lit, s) THEN RemoveAll(Drop(s, Len(lit)), lit)
         ELSE <<Head(s)>> \o RemoveAll(Tail(s), lit)

----------------------------------------------------------------------------
(* Resources of the skill: the regex files and the 'by' vocabulary         *)

\* the names of the regex files the skill ships
RegexNames == {"on_youtube", "album", "artist", "song"}

\* the text of <name>.regex: the provider mention is a literal, an entity
\* pattern is a keyword, a space and a named group taking the rest (.+)
RegexFile(name) ==
    CASE name = "on_youtube" -> [literal |-> <<"on", SP, "youtube">>]
      [] name = "album"      -> [keyword |-> "album", group |-> "album"]
      [] name = "artist"     -> [keyword |-> "artist", group |-> "artist"]
      [] name = "song"       -> [keyword |-> "song", group |-> "track"]

\* self.find_resource(name + '.regex'): is there such a file
find_resource(name) == name \in RegexNames

\* self.translate('by')
translate_by == "by"

\* re.sub(pattern, '', s) for the literal pattern of on_youtube.regex
ReSub(pattern, s) == RemoveAll(s, pattern.literal)

\* re.match(pattern, s) for an entity pattern: anchored at the start, the
\* group takes at least one symbol
ReMatch(pattern, s) ==
    IF Len(s) >= 3 /\ s[1] = pattern.keyword /\ s[2] = SP
    THEN [matched |-> TRUE, text |-> Drop(s, 2)]
    ELSE [matched |-> FALSE, text |-> <<>>]

\* translate_regex: load on first use, then read the cache; the read of a
\* name that was not loaded is a KeyError
translate_regex(cache, regex) ==
    LET loaded == IF regex \notin DOMAIN cache /\ find_resource(regex)
                  THEN (regex :> RegexFile(regex)) @@ cache
                  ELSE cache
    IN  IF regex \in DOMAIN loaded
        THEN [regexes |-> loaded, error |-> "", value |-> loaded[regex]]
        ELSE [regexes |-> loaded, error |-> "KeyError", value |-> [literal |-> <<>>]]

----------------------------------------------------------------------------
(* The catalog client                                                      *)

\* browseId of the top record of an answer, and of the records after it
Ids == {"id1", "id2"}
OtherId == "id9"

\* fuzzy_match of a record's name against the query
Sims == {10 * i : i \in 0..10}

\* the records after the top one: a perfect match that is not the top result
Filler == [browseId |-> OtherId, match |-> 100]

RECURSIVE Fillers(_)
Fillers(n) == IF n <= 0 THEN <<>> ELSE <<Filler>> \o Fillers(n - 1)

\* what self.yt.search(q, 'artists') can answer: an empty list, or a list of
\* artist records
ArtistAnswers ==
    {<<>>} \cup
    { <<[browseId |-> b, match |-> m]>> \o Fillers(n - 1) :
        b \in Ids, m \in Sims, n \in 1..MaxResults }

\* what self.yt.search(q, 'albums') can answer: album records, of which only
\* the browseId is read
RECURSIVE AlbumFillers(_)
AlbumFillers(n) ==
    IF n <= 0 THEN <<>> ELSE <<[browseId |-> OtherId]>> \o AlbumFillers(n - 1)

AlbumAnswers ==
    {<<>>} \cup
    { <<[browseId |-> b]>> \o AlbumFillers(n - 1) : b \in Ids, n \in 1..MaxResults }

\* what self.yt.search(q, 'songs') can answer: song records, which are not read
SongAnswers == { <<>>, <<[videoId |-> "v1"]>> }

\* the answers to a search of the given kind
AnswersOf(kind) ==
    CASE kind = "artists" -> ArtistAnswers
      [] kind = "albums" -> AlbumAnswers
      [] kind = "songs" -> SongAnswers

\* what self.yt.search can answer
Answers == ArtistAnswers \cup AlbumAnswers \cup SongAnswers

----------------------------------------------------------------------------
(* Events of the trace                                                     *)

Call(fn) == [ev |-> "call", fn |-> fn]
Return(fn, v) == [ev |-> "return", fn |-> fn, value |-> v]
Raise(fn, e) == [ev |-> "raise", fn |-> fn, error |-> e]
Search(kind, q) == [ev |-> "search", kind |-> kind, query |-> q]

----------------------------------------------------------------------------
(* What the handler gives back                                             *)

NoRet == [status |-> "none"]

\* no search of the current run has answered yet
NoAnswer == [received |-> FALSE]

\* the search of the resolver with locals fr answered with the list res
Answered(fr, res) ==
    [received |-> TRUE, fn |-> fr.fn, bonus |-> fr.bonus, list |-> res]

\* no resolver is waiting
NoFrame == [fn |-> "", bonus |-> 0, kind |-> ""]

ProviderHint == <<SP, "on", SP, "youtube">>

ContentTypes == {"saved_tracks", "album", "artist", "track", "playlist", "show"}

\* Directive with the confidence looked at before the provider mention
Directive_ConfidenceFirst(specified, confidence, data, ph) ==
    IF GetType(data) \in ContentTypes
    THEN IF confidence < 50
         THEN [level |-> "GENERIC", phrase |-> ph \o ProviderHint]
         ELSE IF specified
         THEN [level |-> "EXACT", phrase |-> ph]
         ELSE [level |-> "TITLE", phrase |-> ph \o ProviderHint]
    ELSE IF GetType(data) = "continue"
         THEN IF specified
              THEN [level |-> "EXACT", phrase |-> ph]
              ELSE [level |-> "GENERIC", phrase |-> ph \o ProviderHint]
         ELSE [level |-> "GENERIC", phrase |-> ph]

\* Directive with the GENERIC threshold inclusive (confidence <= 0.5)
Directive_InclusiveThreshold(specified, confidence, data, ph) ==
    IF GetType(data) \in ContentTypes
    THEN IF specified
         THEN [level |-> "EXACT", phrase |-> ph]
         ELSE [level |-> IF confidence > 90 THEN "TITLE"
                         ELSE IF confidence <= 50 THEN "GENERIC"
                         ELSE "TITLE",
               phrase |-> ph \o ProviderHint]
    ELSE IF GetType(data) = "continue"
         THEN IF specified
              THEN [level |-> "EXACT", phrase |-> ph]
              ELSE [level |-> "GENERIC", phrase |-> ph \o ProviderHint]
         ELSE [level |-> "GENERIC", phrase |-> ph]

\* Directive with 'continue' levelled by confidence like a content type
Directive_ContinueAsContent(specified, confidence, data, ph) ==
    IF GetType(data) \in ContentTypes \cup {"continue"}
    THEN IF specified
         THEN [level |-> "EXACT", phrase |-> ph]
         ELSE [level |-> IF confidence > 90 THEN "TITLE"
                         ELSE IF confidence < 50 THEN "GENERIC"
                         ELSE "TITLE",
               phrase |-> ph \o ProviderHint]
    ELSE [level |-> "GENERIC", phrase |-> ph]

\* the level and the returned phrase for a candidate
Directive(specified, confidence, data, ph) ==
    IF GetType(data) \in ContentTypes
    THEN IF specified
         THEN [level |-> "EXACT", phrase |-> ph]
         ELSE [level |-> IF confidence > 90 THEN "TITLE"
                         ELSE IF confidence < 50 THEN "GENERIC"
                         ELSE "TITLE",
               phrase |-> ph \o ProviderHint]
    ELSE IF GetType(data) = "continue"
         THEN IF specified
              THEN [level |-> "EXACT", phrase |-> ph]
              ELSE [level |-> "GENERIC", phrase |-> ph \o ProviderHint]
         ELSE [level |-> "GENERIC", phrase |-> ph]

\* the end of CPS_match_query_phrase: a match result, or None
CPS_return(specified, confidence, data, ph) ==
    IF DataTruthy(data)
    THEN [status |-> "match",
          phrase |-> Directive(specified, confidence, data, ph).phrase,
          level |-> Directive(specified, confidence, data, ph).level,
          data |-> data,
          confidence |-> confidence]
    ELSE [status |-> "nomatch"]

----------------------------------------------------------------------------
(* Resolvers                                                               *)

\* continue_playback comparing the phrase without strip()
continue_playback_NoStrip(ph, bonus) ==
    IF ph = <<"youtube">>
    THEN Tuple(100, [data |-> "None", name |-> "None", type |-> "continue"])
    ELSE NOTHING_FOUND

continue_playback(ph, bonus) ==
    IF Strip(ph) = <<"youtube">>
    THEN Tuple(100, [data |-> "None", name |-> "None", type |-> "continue"])
    ELSE NOTHING_FOUND

\* ' {} '.format(self.translate('by'))
by_word == <<SP, translate_by, SP>>

\* '*{}* artist:{}'.format(title, artist)
CompoundQuery(title, artist) == <<"*">> \o title \o <<"*", SP, "artist:">> \o artist

\* the head of query_album and of query_song: the text split at the connector
\* into exactly two pieces, or left as it is; more than two pieces cannot be
\* unpacked into (title, artist)
SplitByArtist(text) ==
    LET parts == Split(text, by_word)
    IN  IF Len(parts) > 1
        THEN IF Len(parts) = 2
             THEN [error |-> "", split |-> TRUE,
                   query |-> CompoundQuery(parts[1], parts[2])]
             ELSE [error |-> "ValueError", split |-> TRUE, query |-> <<>>]
        ELSE [error |-> "", split |-> FALSE, query |-> text]

\* the greatest fuzzy_match among the records of an answer
BestMatch(data) ==
    CHOOSE r \in {data[i] : i \in 1..Len(data)} :
        \A i \in 1..Len(data) : data[i].match <= r.match

\* query_artist without the min(confidence, 1.0)
query_artist_NoClamp(data, bonus) ==
    IF Len(data) > 0
    THEN Tuple(data[1].match + (bonus + 10),
               [browseId |-> data[1].browseId, name |-> "None", type |-> "artist"])
    ELSE NOTHING_FOUND

\* query_artist taking the best-matching record of the answer, not the top one
query_artist_BestOfAll(data, bonus) ==
    IF Len(data) > 0
    THEN Tuple(Min(BestMatch(data).match + (bonus + 10), 100),
               [browseId |-> BestMatch(data).browseId, name |-> "None",
                type |-> "artist"])
    ELSE NOTHING_FOUND

\* query_album adding its bonus to the confidence
query_album_WithBonus(res, bonus) ==
    IF Len(res) > 0
    THEN Tuple(Min(70 + bonus, 100), [type |-> "album", browseId |-> res[1].browseId])
    ELSE NOTHING_FOUND

\* query_artist once the 'artists' search has answered with data
query_artist(data, bonus) ==
    IF Len(data) > 0
    THEN Tuple(Min(data[1].match + (bonus + 10), 100),
               [browseId |-> data[1].browseId, name |-> "None", type |-> "artist"])
    ELSE NOTHING_FOUND

\* query_album once the 'albums' search has answered with res
query_album(res, bonus) ==
    IF Len(res) > 0
    THEN Tuple(70, [type |-> "album", browseId |-> res[1].browseId])
    ELSE NOTHING_FOUND

\* query_song once the 'songs' search has answered with res
query_song(res, bonus) == PyNone

\* best_result: the first of the list; an empty list has no first
best_result(rs) ==
    IF Len(rs) > 0 THEN [error |-> "", value |-> rs[1]]
    ELSE [error |-> "IndexError", value |-> PyNone]

----------------------------------------------------------------------------
(* Configurations the handler can be left in                               *)

\* waiting for self.yt.search
Waiting(cache, tr, stage, fr, rs) ==
    [regexes |-> cache, pc |-> stage, frame |-> fr, results |-> rs,
     trace |-> tr, ret |-> NoRet]

\* an exception left CPS_match_query_phrase
Raised(cache, tr, fn, err) ==
    [regexes |-> cache, pc |-> "done", frame |-> NoFrame, results |-> <<>>,
     trace |-> Append(tr, Raise(fn, err)),
     ret |-> [status |-> "raised", error |-> err]]

\* CPS_match_query_phrase returned with (confidence, data) in hand
Returned(cache, tr, specified, ph, confidence, data) ==
    [regexes |-> cache, pc |-> "done", frame |-> NoFrame, results |-> <<>>,
     trace |-> tr, ret |-> CPS_return(specified, confidence, data, ph)]

\* the bonus CPS_match_query_phrase passes on
Bonus(specified) == IF specified THEN 10 ELSE 0

\* a call of query_album or query_song up to its search
ResolverStart(cache, tr, fn, kind, stage, text, bonus, rs) ==
    LET sp == SplitByArtist(text)
        tr1 == Append(tr, Call(fn))
    IN  IF sp.error # ""
        THEN Raised(cache, tr1, fn, sp.error)
        ELSE Waiting(cache, Append(tr1, Search(kind, sp.query)), stage,
                     [fn |-> fn,
                      bonus |-> IF sp.split /\ fn = "query_album"
                                THEN bonus + 10 ELSE bonus,
                      kind |-> kind],
                     rs)

\* a call of query_artist up to its search
ArtistStart(cache, tr, stage, text, bonus, rs) ==
    Waiting(cache, Append(Append(tr, Call("query_artist")), Search("artists", text)),
            stage, [fn |-> "query_artist", bonus |-> bonus, kind |-> "artists"], rs)

\* generic_query up to its first search
GenericStart(cache, tr, specified, ph) ==
    ArtistStart(cache, Append(tr, Call("generic_query")), "generic_artist",
                ph, Bonus(specified), <<>>)

\* generic_query after the resolver of `stage` returned r
GenericNext(cache, tr, specified, ph, stage, r, rs) ==
    IF r.kind # "tuple"
    THEN Raised(cache, tr, "generic_query", "TypeError")
    ELSE IF ConfTruthy(r.conf) /\ r.conf > DIRECT_RESPONSE_CONFIDENCE
    THEN Returned(cache, Append(tr, Return("generic_query", r)),
                  specified, ph, r.conf, r.data)
    ELSE LET rs1 == IF ConfTruthy(r.conf) /\ r.conf > MATCH_CONFIDENCE
                    THEN Append(rs, r) ELSE rs
         IN  CASE stage = "generic_artist" ->
                    ResolverStart(cache, tr, "query_song", "songs", "generic_song",
                                  ph, Bonus(specified), rs1)
               [] stage = "generic_song" ->
                    ResolverStart(cache, tr, "query_album", "albums", "generic_album",
                                  ph, Bonus(specified), rs1)
               [] stage = "generic_album" ->
                    \* self.get_best_public_playlist is defined nowhere
                    Raised(cache, Append(tr, Call("get_best_public_playlist")),
                           "generic_query", "AttributeError")
               [] OTHER ->
                    LET b == best_result(rs1)
                    IN  IF b.error # ""
                        THEN Raised(cache, Append(tr, Call("best_result")),
                                    "best_result", b.error)
                        ELSE Returned(cache,
                                      Append(Append(tr, Call("best_result")),
                                             Return("generic_query", b.value)),
                                      specified, ph, b.value.conf, b.value.data)

\* the router giving up when a matched pattern's resolver found nothing
AfterSpecific_NoFallback(cache, tr, specified, ph, r) ==
    LET tr1 == Append(tr, Return("specific_query", r))
        resolved == \E i \in 1..Len(tr) : tr[i].ev = "return"
    IN  IF r.kind # "tuple"
        THEN Raised(cache, tr1, "CPS_match_query_phrase", "TypeError")
        ELSE IF ~DataTruthy(r.data) /\ ~resolved
        THEN GenericStart(cache, tr1, specified, ph)
        ELSE Returned(cache, tr1, specified, ph, r.conf, r.data)

\* CPS_match_query_phrase after specific_query returned r
AfterSpecific(cache, tr, specified, ph, r) ==
    LET tr1 == Append(tr, Return("specific_query", r))
    IN  IF r.kind # "tuple"
        THEN Raised(cache, tr1, "CPS_match_query_phrase", "TypeError")
        ELSE IF ~DataTruthy(r.data)
        THEN GenericStart(cache, tr1, specified, ph)
        ELSE Returned(cache, tr1, specified, ph, r.conf, r.data)

\* specific_query treating a phrase that matches no pattern as an artist
SpecificStart_DefaultArtist(cache, tr, specified, ph) ==
    LET tr0 == Append(tr, Call("specific_query"))
        ta == translate_regex(cache, "album")
        ma == ReMatch(ta.value, ph)
        tb == translate_regex(ta.regexes, "artist")
        mb == ReMatch(tb.value, ph)
        tc == translate_regex(tb.regexes, "song")
        mc == ReMatch(tc.value, ph)
    IN  IF ma.matched
        THEN ResolverStart(ta.regexes, tr0, "query_album", "albums", "specific_album",
                           ma.text, Bonus(specified) + 10, <<>>)
        ELSE IF mb.matched
        THEN ArtistStart(tb.regexes, tr0, "specific_artist", mb.text,
                         Bonus(specified), <<>>)
        ELSE IF mc.matched
        THEN ResolverStart(tc.regexes, tr0, "query_song", "songs", "specific_song",
                           mc.text, Bonus(specified), <<>>)
        ELSE ArtistStart(tc.regexes, tr0, "specific_artist", ph,
                         Bonus(specified), <<>>)

\* specific_query up to the search of the resolver it chose, or to its end
SpecificStart(cache, tr, specified, ph) ==
    LET tr0 == Append(tr, Call("specific_query"))
        ta == translate_regex(cache, "album")
        ma == ReMatch(ta.value, ph)
        tb == translate_regex(ta.regexes, "artist")
        mb == ReMatch(tb.value, ph)
        tc == translate_regex(tb.regexes, "song")
        mc == ReMatch(tc.value, ph)
    IN  IF ta.error # "" THEN Raised(ta.regexes, tr0, "translate_regex", ta.error)
        ELSE IF ma.matched
        THEN ResolverStart(ta.regexes, tr0, "query_album", "albums", "specific_album",
                           ma.text, Bonus(specified) + 10, <<>>)
        ELSE IF tb.error # "" THEN Raised(tb.regexes, tr0, "translate_regex", tb.error)
        ELSE IF mb.matched
        THEN ArtistStart(tb.regexes, tr0, "specific_artist", mb.text,
                         Bonus(specified), <<>>)
        ELSE IF tc.error # "" THEN Raised(tc.regexes, tr0, "translate_regex", tc.error)
        ELSE IF mc.matched
        THEN ResolverStart(tc.regexes, tr0, "query_song", "songs", "specific_song",
                           mc.text, Bonus(specified), <<>>)
        ELSE AfterSpecific(tc.regexes, tr0, specified, ph, NOTHING_FOUND)

\* CPS_match_query_phrase taking the provider as mentioned when the on_youtube
\* pattern removed something
HandlerStart_SpecifiedByPattern(cache, p) ==
    LET t == translate_regex(cache, "on_youtube")
        ph == ReSub(t.value, p)
        specified == ph # p
        c == continue_playback(ph, Bonus(specified))
        tr == <<Call("continue_playback")>>
    IN  IF t.error # "" THEN Raised(t.regexes, <<>>, "translate_regex", t.error)
        ELSE IF ~DataTruthy(c.data)
        THEN SpecificStart(t.regexes, tr, specified, ph)
        ELSE Returned(t.regexes, tr, specified, ph, c.conf, c.data)

\* CPS_match_query_phrase from its call up to the first search, or to its end
HandlerStart(cache, p) ==
    LET specified == Contains(p, "youtube")
        t == translate_regex(cache, "on_youtube")
        ph == ReSub(t.value, p)
        c == continue_playback(ph, Bonus(specified))
        tr == <<Call("continue_playback")>>
    IN  IF t.error # "" THEN Raised(t.regexes, <<>>, "translate_regex", t.error)
        ELSE IF ~DataTruthy(c.data)
        THEN SpecificStart(t.regexes, tr, specified, ph)
        ELSE Returned(t.regexes, tr, specified, ph, c.conf, c.data)

----------------------------------------------------------------------------
(* Input phrases                                                           *)

\* "x", "x by x", "x by x by x", ...
RECURSIVE ByText(_)
ByText(k) == IF k <= 0 THEN <<"x">> ELSE ByText(k - 1) \o <<SP, "by", SP, "x">>

Texts == { ByText(k) : k \in 0..MaxBy } \cup { <<"youtube">> }

Prefixes == { <<>>,
              <<"album", SP>>, <<"artist", SP>>, <<"song", SP>>,
              <<"album", SP, "artist", SP>>,
              <<"on", SP, "youtube", SP>> }

Suffixes == { <<>>, <<SP, "on", SP, "youtube">>, <<SP, "youtube">> }

\* utterances: words separated by single spaces
Phrases == { a \o t \o z : a \in Prefixes, t \in Texts, z \in Suffixes }

----------------------------------------------------------------------------
(* The state machine                                                       *)

SpecificStages == {"specific_album", "specific_artist", "specific_song"}
GenericStages == {"generic_artist", "generic_song", "generic_album"}

\* the callers of translate_regex
Threads == {"t1", "t2"}

\* a thread that is not inside translate_regex
IdleThread == [pc |-> "idle", regex |-> "", path |-> FALSE, result |-> NoRet]

\* the skill's settings: is ducking switched on
Settings == { [use_ducking |-> b] : b \in BOOLEAN }

\* no handler of the playback state has run yet
NoStep == [op |-> "none"]

\* the query handler after __init__
QueryInit ==
    /\ regexes = <<>>
    /\ pc = "idle"
    /\ phrase_in = <<>>
    /\ youtube_specified = FALSE
    /\ phrase = <<>>
    /\ frame = NoFrame
    /\ results = <<>>
    /\ trace = <<>>
    /\ answer = NoAnswer
    /\ ret = NoRet

\* no caller is inside translate_regex; f are the names with a regex file
CacheInit(f) ==
    /\ files = f
    /\ threads = [t \in Threads |-> IdleThread]
    /\ loader = [n \in RegexNames |-> 0]
    /\ stores = [n \in RegexNames |-> 0]

\* the playback state after __init__, with the settings s
PlaybackInit(s) ==
    /\ is_playing = FALSE
    /\ ducking = FALSE
    /\ idle_count = 0
    /\ last_played_type = "None"
    /\ events = {}
    /\ intents = FALSE
    /\ settings = s
    /\ step = NoStep
    /\ started = FALSE

Init ==
    /\ QueryInit
    /\ CacheInit(RegexNames)
    /\ PlaybackInit([use_ducking |-> FALSE])

Apply(cfg) ==
    /\ regexes' = cfg.regexes
    /\ pc' = cfg.pc
    /\ frame' = cfg.frame
    /\ results' = cfg.results
    /\ trace' = cfg.trace
    /\ ret' = cfg.ret

\* the phrase after the provider mention is removed
StrippedPhrase(cache, p) ==
    LET t == translate_regex(cache, "on_youtube")
    IN  IF t.error # "" THEN p ELSE ReSub(t.value, p)

\* the framework calls the handler with a phrase; no call is in progress
CPS_match_query_phrase(p) ==
    /\ pc \in {"idle", "done"}
    /\ phrase_in' = p
    /\ youtube_specified' = Contains(p, "youtube")
    /\ phrase' = StrippedPhrase(regexes, p)
    /\ answer' = NoAnswer
    /\ Apply(HandlerStart(regexes, p))
    /\ UNCHANGED <<cacheVars, playVars>>

\* what the waiting resolver returns when its search answers
ResolverReturn(fr, res) ==
    CASE fr.fn = "query_artist" -> query_artist(res, fr.bonus)
      [] fr.fn = "query_album" -> query_album(res, fr.bonus)
      [] fr.fn = "query_song" -> query_song(res, fr.bonus)

\* the search of the resolver chosen by specific_query answers
SpecificSearchReturns(res) ==
    /\ pc \in SpecificStages
    /\ res \in AnswersOf(frame.kind)
    /\ LET r == ResolverReturn(frame, res)
       IN  Apply(AfterSpecific(regexes, Append(trace, Return(frame.fn, r)),
                               youtube_specified, phrase, r))
    /\ answer' = Answered(frame, res)
    /\ UNCHANGED <<phrase_in, youtube_specified, phrase, cacheVars, playVars>>

\* the search of a resolver called by generic_query answers
GenericSearchReturns(res) ==
    /\ pc \in GenericStages
    /\ res \in AnswersOf(frame.kind)
    /\ LET r == ResolverReturn(frame, res)
       IN  Apply(GenericNext(regexes, Append(trace, Return(frame.fn, r)),
                             youtube_specified, phrase, pc, r, results))
    /\ answer' = Answered(frame, res)
    /\ UNCHANGED <<phrase_in, youtube_specified, phrase, cacheVars, playVars>>

Next ==
    \/ \E p \in Phrases : CPS_match_query_phrase(p)
    \/ \E res \in Answers : SpecificSearchReturns(res)
    \/ \E res \in Answers : GenericSearchReturns(res)

Spec == Init /\ [][Next]_vars

----------------------------------------------------------------------------
(* Reading the trace                                                       *)

Resolvers == {"query_artist", "query_song", "query_album",
              "get_best_public_playlist"}

Has(e) == \E i \in 1..Len(trace) : trace[i] = e

\* position of the first event e; 0 when there is none
IndexOf(e) ==
    IF Has(e) THEN CHOOSE i \in 1..Len(trace) :
                       trace[i] = e /\ \A j \in 1..(i - 1) : trace[j] # e
    ELSE 0

IsCall(e) == e.ev = "call"
IsSearch(e) == e.ev = "search"
IsResolverReturn(e) == e.ev = "return" /\ e.fn \in Resolvers
IsSpecificReturn(e) == e.ev = "return" /\ e.fn = "specific_query"

GenericCalled == Has(Call("generic_query"))
SpecificCalled == Has(Call("specific_query"))
SpecificReturned == \E i \in 1..Len(trace) : IsSpecificReturn(trace[i])

\* what specific_query returned
SpecificValue ==
    (CHOOSE e \in {trace[i] : i \in 1..Len(trace)} : IsSpecificReturn(e)).value

\* the events of specific_query: after its call, before its return
SpecificEvents ==
    LET from == IndexOf(Call("specific_query"))
        rets == {i \in 1..Len(trace) : IsSpecificReturn(trace[i])}
        to == IF rets = {} THEN Len(trace) ELSE (CHOOSE i \in rets : TRUE) - 1
    IN  IF from = 0 THEN <<>> ELSE SubSeq(trace, from + 1, to)

\* the events of generic_query: after its call
GenericEvents ==
    IF GenericCalled
    THEN SubSeq(trace, IndexOf(Call("generic_query")) + 1, Len(trace))
    ELSE <<>>

\* the functions generic_query called, in order
GenericCalls ==
    LET cs == SelectSeq(GenericEvents, IsCall)
    IN  [i \in 1..Len(cs) |-> cs[i].fn]

\* what the resolvers called by generic_query returned, in order
GenericReturns ==
    LET rs == SelectSeq(GenericEvents, IsResolverReturn)
    IN  [i \in 1..Len(rs) |-> rs[i].value]

\* a resolver's value is a confidence above the threshold
Above(v, threshold) ==
    v.kind = "tuple" /\ ConfTruthy(v.conf) /\ v.conf > threshold

\* the resolver a pattern name stands for
ResolverOf(name) ==
    CASE name = "album" -> "query_album"
      [] name = "artist" -> "query_artist"
      [] name = "song" -> "query_song"

PatternOrder == <<"album", "artist", "song">>

PatternMatches(name, ph) == ReMatch(RegexFile(name), ph).matched

\* the patterns that match the stripped phrase, as positions of PatternOrder
Matching(ph) == {k \in 1..Len(PatternOrder) : PatternMatches(PatternOrder[k], ph)}

\* the first of them
FirstMatching(ph) == CHOOSE k \in Matching(ph) : \A j \in Matching(ph) : k <= j

Count(s, w) == Cardinality({i \in 1..Len(s) : s[i] = w})

\* no text of the run holds more than one connector
AtMostOneConnector == Len(Split(phrase, by_word)) <= 2

Done == pc = "done"

----------------------------------------------------------------------------
(* Claims                                                                  *)

\* a resolver called by specific_query returned v
SpecificResolverReturned(v) ==
    \E i \in 1..Len(SpecificEvents) :
        IsResolverReturn(SpecificEvents[i]) /\ SpecificEvents[i].value = v

NothingAboveMatch ==
    \A i \in 1..Len(GenericReturns) : ~Above(GenericReturns[i], MATCH_CONFIDENCE)

\* C2 as stated: when generic_query ran and no resolver gave a confidence above
\* 0.5, the handler ends without an error and returns no match.
C2_EmptyAccumulatorNoMatch ==
    (Done /\ GenericCalled /\ AtMostOneConnector /\ NothingAboveMatch) =>
        ret.status = "nomatch"

\* C3 as stated: query_song returns the NOTHING_FOUND pair, and a run that
\* calls it does not end in a TypeError.
C3_SongReturnsNothingFound ==
    /\ \A i \in 1..Len(trace) :
          (trace[i].ev = "return" /\ trace[i].fn = "query_song") =>
              trace[i].value = NOTHING_FOUND
    /\ (Done /\ Has(Call("query_song")) /\ AtMostOneConnector) =>
          ret.status # "raised"

GenericOrder ==
    <<"query_artist", "query_song", "query_album", "get_best_public_playlist">>

\* C4 as stated: a finished generic_query called its resolvers in the order
\* artist, track, album, public playlist, and stopped at the first one whose
\* confidence is above 0.8, returning that result; with none above 0.8 all
\* four were called.
C4_OrderAndShortCircuit ==
    (Done /\ GenericCalled /\ AtMostOneConnector) =>
        LET calls == SelectSeq(GenericCalls, LAMBDA f : f \in Resolvers)
            n == Len(GenericReturns)
        IN  \/ /\ n >= 1
               /\ calls = SubSeq(GenericOrder, 1, n)
               /\ Above(GenericReturns[n], DIRECT_RESPONSE_CONFIDENCE)
               /\ \A i \in 1..(n - 1) :
                      ~Above(GenericReturns[i], DIRECT_RESPONSE_CONFIDENCE)
               /\ ret.status = "match"
               /\ ret.data = GenericReturns[n].data
               /\ ret.confidence = GenericReturns[n].conf
            \/ /\ calls = GenericOrder
               /\ n = Len(GenericOrder)
               /\ \A i \in 1..n :
                      ~Above(GenericReturns[i], DIRECT_RESPONSE_CONFIDENCE)

\* C5 as stated: when no resolver of generic_query is above 0.8 and one is in
\* (0.5, 0.8], the handler returns the result of the earliest resolver above 0.5.
C5_FirstAccumulated ==
    (/\ Done /\ GenericCalled /\ AtMostOneConnector
     /\ \A i \in 1..Len(GenericReturns) :
            ~Above(GenericReturns[i], DIRECT_RESPONSE_CONFIDENCE)
     /\ ~NothingAboveMatch) =>
        LET first == CHOOSE i \in 1..Len(GenericReturns) :
                         /\ Above(GenericReturns[i], MATCH_CONFIDENCE)
                         /\ \A j \in 1..(i - 1) :
                                ~Above(GenericReturns[j], MATCH_CONFIDENCE)
        IN  /\ ret.status = "match"
            /\ ret.data = GenericReturns[first].data
            /\ ret.confidence = GenericReturns[first].conf

C7_ContinueIsTerminal ==
    pc # "idle" =>
        IF Strip(phrase) = <<"youtube">>
        THEN /\ Done
             /\ ret.status = "match"
             /\ ret.data = [data |-> "None", name |-> "None", type |-> "continue"]
             /\ ret.confidence = 100
             /\ trace = <<Call("continue_playback")>>
        ELSE /\ SpecificCalled
             /\ ret.status = "match" => GetType(ret.data) # "continue"

C7_Witness ==
    /\ Done
    /\ phrase # <<"youtube">>
    /\ Strip(phrase) = <<"youtube">>
    /\ GetType(ret.data) = "continue"

\* confidences and phrases the directive is tried on
SampleConfidences == {5 * i : i \in 0..20}
SamplePhrases == { <<>>, <<"x">>, <<"x", SP>>, <<"album", SP, "x">> }

\* C8: with an explicit provider mention, a candidate of a content type gets
\* level EXACT whatever the confidence, and the returned phrase is the
\* stripped phrase without the provider hint.
C8_ExplicitMentionIsExact ==
    /\ (Done /\ ret.status = "match" /\ youtube_specified
             /\ GetType(ret.data) \in ContentTypes) =>
          /\ ret.level = "EXACT"
          /\ ret.phrase = phrase
    /\ \A t \in ContentTypes, c \in SampleConfidences, ph \in SamplePhrases :
          Directive(TRUE, c, [type |-> t], ph) = [level |-> "EXACT", phrase |-> ph]

C8_Witness ==
    /\ Done /\ ret.status = "match" /\ youtube_specified
    /\ GetType(ret.data) = "artist"
    /\ ret.confidence < 50
    /\ ret.level = "EXACT"

\* C9: without a provider mention, a candidate of a content type gets level
\* GENERIC exactly when the confidence is below 0.5 and TITLE otherwise, and
\* the returned phrase is the stripped phrase followed by one provider hint.
C9_LevelByConfidence ==
    /\ (Done /\ ret.status = "match" /\ ~youtube_specified
             /\ GetType(ret.data) \in ContentTypes) =>
          /\ ret.level = IF ret.confidence < 50 THEN "GENERIC" ELSE "TITLE"
          /\ ret.phrase = phrase \o <<SP, "on", SP, "youtube">>
          /\ Count(ret.phrase, "youtube") = 1
    /\ \A t \in ContentTypes, c \in SampleConfidences, ph \in SamplePhrases :
          Directive(FALSE, c, [type |-> t], ph) =
              [level |-> IF c < 50 THEN "GENERIC" ELSE "TITLE",
               phrase |-> ph \o <<SP, "on", SP, "youtube">>]

C9_Witness ==
    /\ Done /\ ret.status = "match" /\ ~youtube_specified
    /\ GetType(ret.data) = "artist"
    /\ ret.confidence = 50
    /\ ret.level = "TITLE"

C9_WitnessGeneric ==
    /\ Done /\ ret.status = "match" /\ ~youtube_specified
    /\ ret.confidence < 50
    /\ ret.level = "GENERIC"

\* C10: a 'continue' candidate gets level EXACT and the unsuffixed phrase when
\* the phrase mentioned the provider, and level GENERIC and the phrase with
\* the provider hint otherwise.
C10_ContinueLevel ==
    /\ (Done /\ ret.status = "match" /\ GetType(ret.data) = "continue") =>
          IF youtube_specified
          THEN ret.level = "EXACT" /\ ret.phrase = phrase
          ELSE ret.level = "GENERIC"
               /\ ret.phrase = phrase \o <<SP, "on", SP, "youtube">>
    /\ \A c \in SampleConfidences, ph \in SamplePhrases :
          /\ Directive(TRUE, c, [type |-> "continue"], ph)
                = [level |-> "EXACT", phrase |-> ph]
          /\ Directive(FALSE, c, [type |-> "continue"], ph)
                = [level |-> "GENERIC", phrase |-> ph \o <<SP, "on", SP, "youtube">>]

C10_Witness ==
    /\ Done /\ ret.status = "match" /\ GetType(ret.data) = "continue"
    /\ youtube_specified
    /\ ret.level = "EXACT"
    /\ ret.phrase = phrase

----------------------------------------------------------------------------
(* Resolver results against the answers they were computed from            *)

\* positions of the returns of the resolvers that search the catalog
SearchingResolvers == {"query_artist", "query_album", "query_song"}

ResolverReturns ==
    {i \in 1..Len(trace) :
        trace[i].ev = "return" /\ trace[i].fn \in SearchingResolvers}

\* the return of the resolver whose search answered last
LastResolverReturn ==
    trace[CHOOSE i \in ResolverReturns : \A j \in ResolverReturns : j <= i]

\* the resolver fn returned for the answer held in `answer`
AnsweredBy(fn) ==
    answer.received /\ answer.fn = fn /\ ResolverReturns # {}
    /\ LastResolverReturn.fn = fn

\* the values that carry a candidate among those returned during the run
CandidateValues ==
    {trace[i].value : i \in {j \in 1..Len(trace) :
        /\ trace[j].ev = "return"
        /\ trace[j].value.kind = "tuple"
        /\ DataTruthy(trace[j].value.data)}}

\* the bonus a resolver can be handed: provider mention, pattern, artist clause
Bonuses == {0, 10, 20, 30}

\* C11: every confidence that accompanies a candidate (returned by
\* continue_playback, query_artist, query_album, specific_query or
\* generic_query, or given back by CPS_match_query_phrase) lies between 0.0
\* and 1.0, for every similarity and every bonus.
C11_ConfidenceWithinUnit ==
    /\ \A v \in CandidateValues : v.conf \in 0..100
    /\ ret.status = "match" => ret.confidence \in 0..100
    /\ \A b \in Bonuses :
          /\ DataTruthy(continue_playback(phrase, b).data) =>
                continue_playback(phrase, b).conf \in 0..100
          /\ \A a \in ArtistAnswers :
                DataTruthy(query_artist(a, b).data) =>
                    query_artist(a, b).conf \in 0..100
          /\ \A a \in AlbumAnswers :
                DataTruthy(query_album(a, b).data) =>
                    query_album(a, b).conf \in 0..100

\* an artist whose similarity plus bonus passes 1.0 came back with 1.0
C11_Witness ==
    /\ AnsweredBy("query_artist")
    /\ answer.list # <<>>
    /\ answer.list[1].match + answer.bonus + 10 > 100
    /\ LastResolverReturn.value.conf = 100
    /\ ret.status = "match" /\ ret.confidence = 100

C13_ArtistTopResultOnly ==
    /\ \A i \in ResolverReturns :
          trace[i].fn = "query_artist" =>
              /\ i >= 3
              /\ trace[i - 2] = Call("query_artist")
              /\ IsSearch(trace[i - 1]) /\ trace[i - 1].kind = "artists"
    /\ AnsweredBy("query_artist") =>
          LastResolverReturn.value =
              IF answer.list # <<>>
              THEN Tuple(Min(answer.list[1].match + answer.bonus + 10, 100),
                         [browseId |-> answer.list[1].browseId,
                          name |-> "None", type |-> "artist"])
              ELSE NOTHING_FOUND

\* a weak top record followed by a perfect match: the top record is returned
C13_Witness ==
    /\ AnsweredBy("query_artist")
    /\ Len(answer.list) = 2
    /\ answer.list[1].match = 60 /\ answer.list[2].match = 100
    /\ answer.bonus = 10
    /\ LastResolverReturn.value.conf = 80
    /\ LastResolverReturn.value.data.browseId = answer.list[1].browseId

\* the query a text with at most one connector is searched with
AlbumQuery(text) ==
    LET parts == Split(text, by_word)
    IN  IF Len(parts) = 2 THEN CompoundQuery(parts[1], parts[2]) ELSE text

\* C14: for every album text, with the connector ' by ' absent or present once
\* or more, query_album issues one 'albums' search (with the compound query of
\* album text and artist text, or with the text unchanged when the connector is
\* absent) and returns (0.7, album) or NOTHING_FOUND; it never raises.
C14_AlbumSplitNeverRaises ==
    \A i \in 1..Len(trace) :
        /\ trace[i] = Call("query_album") =>
              /\ i < Len(trace)
              /\ IsSearch(trace[i + 1]) /\ trace[i + 1].kind = "albums"
              /\ Len(Split(phrase, by_word)) <= 2 =>
                    trace[i + 1].query \in
                        {AlbumQuery(phrase), AlbumQuery(Drop(phrase, 2))}
        /\ trace[i].ev = "raise" => trace[i].fn # "query_album"

----------------------------------------------------------------------------
(* translate_regex statement by statement, for callers that may interleave *)

\* most find_resource calls for one name after which no new call is started
MaxLoads == 2

\* self.find_resource(regex + '.regex') in an installation with `files`
ResourceFound(regex) == regex \in files

\* a caller is at one statement of translate_regex
At(t, label) == threads[t].pc = label

Goto(t, label) == [threads EXCEPT ![t].pc = label]

\* thread t calls translate_regex(regex)
Begin(t, regex) ==
    /\ At(t, "idle")
    /\ loader[regex] < MaxLoads
    /\ threads' = [threads EXCEPT ![t] =
                      [pc |-> "check", regex |-> regex, path |-> FALSE,
                       result |-> NoRet]]
    /\ UNCHANGED <<regexes, files, loader, stores, queryVars, playVars>>

\* the same call when no other call is in progress
BeginAlone(t, regex) ==
    /\ \A u \in Threads : At(u, "idle")
    /\ Begin(t, regex)

\* if regex not in self.regexes:
Check(t) ==
    /\ At(t, "check")
    /\ threads' = Goto(t, IF threads[t].regex \notin DOMAIN regexes
                          THEN "find" ELSE "read")
    /\ UNCHANGED <<regexes, files, loader, stores, queryVars, playVars>>

\* path = self.find_resource(regex + '.regex'); if path:
Find(t) ==
    /\ At(t, "find")
    /\ LET found == ResourceFound(threads[t].regex)
       IN  threads' = [threads EXCEPT ![t].path = found,
                                      ![t].pc = IF found THEN "store" ELSE "read"]
    /\ loader' = [loader EXCEPT ![threads[t].regex] = @ + 1]
    /\ UNCHANGED <<regexes, files, stores, queryVars, playVars>>

\* string = f.read().strip(); self.regexes[regex] = string
Store(t) ==
    /\ At(t, "store")
    /\ regexes' = (threads[t].regex :> RegexFile(threads[t].regex)) @@ regexes
    /\ stores' = [stores EXCEPT ![threads[t].regex] = @ + 1]
    /\ threads' = Goto(t, "read")
    /\ UNCHANGED <<files, loader, queryVars, playVars>>

\* return self.regexes[regex]
Read(t) ==
    /\ At(t, "read")
    /\ threads' = [threads EXCEPT
          ![t].pc = "idle",
          ![t].result =
              IF threads[t].regex \in DOMAIN regexes
              THEN [status |-> "returned", value |-> regexes[threads[t].regex]]
              ELSE [status |-> "raised", error |-> "KeyError"]]
    /\ UNCHANGED <<regexes, files, loader, stores, queryVars, playVars>>

\* an installation with any of the regex files present
InitCache ==
    /\ QueryInit
    /\ \E f \in SUBSET RegexNames : CacheInit(f)
    /\ PlaybackInit([use_ducking |-> FALSE])

\* calls of translate_regex one after the other
NextCacheSeq ==
    \E t \in Threads :
        \/ \E n \in RegexNames : BeginAlone(t, n)
        \/ Check(t)
        \/ Find(t)
        \/ Store(t)
        \/ Read(t)

SpecCacheSeq == InitCache /\ [][NextCacheSeq]_vars

\* calls of translate_regex from two threads, interleaved at will
NextCache ==
    \E t \in Threads :
        \/ \E n \in RegexNames : Begin(t, n)
        \/ Check(t)
        \/ Find(t)
        \/ Store(t)
        \/ Read(t)

SpecCache == InitCache /\ [][NextCache]_vars

\* the calls that returned a pattern
ReturnedPattern(t) == At(t, "idle") /\ threads[t].result.status = "returned"

\* C15: over any sequence of translate_regex calls each pattern name goes
\* through the loader (find_resource and the file read) at most once, also when
\* the loader finds no file for the name; a cached entry is never changed, and
\* every call returns the cached text.
C15_ResolvedAtMostOnce ==
    /\ \A n \in RegexNames : loader[n] <= 1 /\ stores[n] <= 1
    /\ \A n \in DOMAIN regexes : regexes[n] = RegexFile(n)
    /\ \A t \in Threads :
          ReturnedPattern(t) => threads[t].result.value = RegexFile(threads[t].regex)

\* the part of C15 that holds: a name that has a file is loaded once
C15_PresentLoadedOnce ==
    \A n \in files : loader[n] <= 1 /\ stores[n] <= 1

\* C16: when two threads make the first translate_regex call for the same
\* uncached name at the same time, the pattern is loaded and written to the
\* cache at most once, both get the same text, and the cache has one entry for
\* the name.
C16_SingleFlightLoad ==
    /\ \A n \in files : loader[n] <= 1 /\ stores[n] <= 1
    /\ \A t, u \in Threads :
          (ReturnedPattern(t) /\ ReturnedPattern(u)
           /\ threads[t].regex = threads[u].regex) =>
              threads[t].result.value = threads[u].result.value

----------------------------------------------------------------------------
(* Playback state: ducking, the idle check, pause and stop, CPS_start       *)

\* check_for_idle resumes when idle_count reaches this
IdleLimit == 5

\* what display_manager.get_active() can answer
Actives == {"", "YoutubeMusicSkill", "OtherSkill"}

\* the candidates CPS_start can be handed: those the resolvers build, the
\* other tags, and payloads with a key missing
Candidates ==
    { [type |-> "continue", data |-> "None", name |-> "None"],
      [type |-> "artist", browseId |-> "id1", name |-> "None"],
      [type |-> "artist", name |-> "None"],
      [type |-> "album", browseId |-> "id1"],
      [type |-> "album"],
      [type |-> "playlist", playlistId |-> "p1"],
      [type |-> "playlist"],
      [type |-> "track"],
      [name |-> "None"] }

\* how self.yt.get_album or self.yt.get_artist and the reading of the track
\* list end: without error, or with an exception
Outcomes == {"", "Exception"}

\* the skill object as a handler finds it; the counters are the calls the
\* handler makes on the audio service and the scheduler
Self ==
    [is_playing |-> is_playing, ducking |-> ducking, idle_count |-> idle_count,
     last_played_type |-> last_played_type, events |-> events,
     intents |-> intents, settings |-> settings,
     pauses |-> 0, resumes |-> 0, cancels |-> 0,
     dialog |-> "None", raised |-> "None", returned |-> "None"]

\* self.__pause(): self.audioservice.pause()
audio_pause(self) == [self EXCEPT !.pauses = @ + 1]

\* pause that leaves self.ducking as it is
pause_KeepDucking(self) == audio_pause(self)

\* handler for playback control pause
pause(self) == audio_pause([self EXCEPT !.ducking = FALSE])

\* handler for playback control resume
resume(self) == [self EXCEPT !.resumes = @ + 1]

\* do_stop marking the skill as no longer playing
do_stop_ClearsPlaying(self) == [pause(self) EXCEPT !.is_playing = FALSE]

do_stop(self) == pause(self)

\* stop: do_stop and True when the skill is playing, False otherwise
stop(self) ==
    IF self.is_playing
    THEN [do_stop(self) EXCEPT !.returned = "True"]
    ELSE [self EXCEPT !.returned = "False"]

\* stop_monitor: self.cancel_scheduled_event('MonitorYoutube')
stop_monitor(self) ==
    [self EXCEPT !.events = @ \ {"MonitorYoutube"}, !.cancels = @ + 1]

\* remove the monitor at shutdown
shutdown(self) == stop_monitor(self)

\* self.cancel_scheduled_event('IdleCheck')
cancel_scheduled_event(self) ==
    [self EXCEPT !.events = @ \ {"IdleCheck"}, !.cancels = @ + 1]

\* self.schedule_repeating_event(self.check_for_idle, None, 1, name='IdleCheck')
schedule_repeating_event(self) == [self EXCEPT !.events = @ \cup {"IdleCheck"}]

handle_listener_started(self) ==
    IF self.is_playing /\ self.settings.use_ducking
    THEN schedule_repeating_event(cancel_scheduled_event(
             [audio_pause(self) EXCEPT !.ducking = TRUE, !.idle_count = 0]))
    ELSE self

\* the test of check_for_idle: not active == '' or active == 'YoutubeMusicSkill'
NoActivity(active) == (~(active = "")) \/ active = "YoutubeMusicSkill"

check_for_idle(self, active) ==
    IF ~self.ducking
    THEN cancel_scheduled_event(self)
    ELSE IF NoActivity(active)
    THEN LET counted == [self EXCEPT !.idle_count = @ + 1]
         IN  IF counted.idle_count >= IdleLimit
             THEN resume([cancel_scheduled_event(counted) EXCEPT !.ducking = FALSE])
             ELSE counted
    ELSE [self EXCEPT !.idle_count = 0]

\* the try block of CPS_start up to enable_playing_intents: the exception the
\* dispatch ends with, or "" when it completes
Dispatch(data, outcome) ==
    IF "type" \notin DOMAIN data THEN "KeyError"
    ELSE CASE data.type = "continue" ->
                \* self.continue_current_playlist and dev are defined nowhere
                "AttributeError"
           [] data.type = "playlist" ->
                IF "playlistId" \in DOMAIN data THEN "" ELSE "KeyError"
           [] data.type \in {"artist", "album"} ->
                IF "browseId" \in DOMAIN data THEN outcome ELSE "KeyError"
           [] OTHER -> ""

\* CPS_start catching PlaylistNotFoundError only
CPS_start_UncaughtErrors(self, data, outcome) ==
    LET err == Dispatch(data, outcome)
    IN  IF err = ""
        THEN [self EXCEPT !.intents = TRUE,
                          !.last_played_type =
                              IF data.type # "continue" THEN data.type ELSE @,
                          !.is_playing = TRUE]
        ELSE [self EXCEPT !.raised = err]

CPS_start(self, data, outcome) ==
    LET err == Dispatch(data, outcome)
    IN  IF err = ""
        THEN [self EXCEPT !.intents = TRUE,
                          !.last_played_type =
                              IF data.type # "continue" THEN data.type ELSE @,
                          !.is_playing = TRUE]
        ELSE [self EXCEPT !.dialog = "PlaybackFailed"]

\* the handler op ran on input `input` and left the skill as `after`
Ran(op, input, after) ==
    /\ is_playing' = after.is_playing
    /\ ducking' = after.ducking
    /\ idle_count' = after.idle_count
    /\ last_played_type' = after.last_played_type
    /\ events' = after.events
    /\ intents' = after.intents
    /\ settings' = after.settings
    /\ step' = [op |-> op, input |-> input,
                was_playing |-> is_playing, was_ducking |-> ducking,
                was_idle |-> idle_count, was_type |-> last_played_type,
                was_intents |-> intents, was_events |-> events,
                pauses |-> after.pauses, resumes |-> after.resumes,
                cancels |-> after.cancels, dialog |-> after.dialog,
                raised |-> after.raised, returned |-> after.returned]
    /\ started' = (started \/ (op = "CPS_start"
                                /\ Dispatch(input.data, input.outcome) = ""))
    /\ UNCHANGED <<regexes, queryVars, cacheVars>>

NoInput == [none |-> TRUE]

\* the framework asks to start a candidate
StartPlayback(data, outcome) ==
    Ran("CPS_start", [data |-> data, outcome |-> outcome],
        CPS_start(Self, data, outcome))

\* recognizer_loop:record_begin arrives (the handler start_monitor registers)
RecordBegin ==
    Ran("handle_listener_started", NoInput, handle_listener_started(Self))

\* the scheduler fires the repeating event IdleCheck
IdleCheckTick(active) ==
    /\ "IdleCheck" \in events
    /\ Ran("check_for_idle", [active |-> active], check_for_idle(Self, active))

\* mycroft.audio.service.pause arrives
AudioPause == Ran("pause", NoInput, pause(Self))

\* mycroft.audio.service.resume arrives
AudioResume == Ran("resume", NoInput, resume(Self))

\* the framework calls stop()
StopRequested == Ran("stop", NoInput, stop(Self))

\* the framework shuts the skill down
Shutdown == Ran("shutdown", NoInput, shutdown(Self))

InitPlayback ==
    /\ QueryInit
    /\ CacheInit(RegexNames)
    /\ \E s \in Settings : PlaybackInit(s)

NextPlayback ==
    \/ \E data \in Candidates, outcome \in Outcomes : StartPlayback(data, outcome)
    \/ RecordBegin
    \/ \E active \in Actives : IdleCheckTick(active)
    \/ AudioPause
    \/ AudioResume
    \/ StopRequested
    \/ Shutdown

SpecPlayback == InitPlayback /\ [][NextPlayback]_vars

\* the last handler that ran
Last(op) == step.op = op

\* C17: while ducking is active, a check_for_idle tick that sees no display
\* activity (the active owner is '' or 'YoutubeMusicSkill') increments
\* idle_count and a tick that sees another skill resets it to 0; when the count
\* reaches 5 the IdleCheck event is cancelled, ducking is cleared and playback
\* is resumed exactly once.  idle_count stays within 0..5.
C17_IdleCountsNoActivity ==
    /\ idle_count \in 0..IdleLimit
    /\ (Last("check_for_idle") /\ step.was_ducking) =>
          IF step.input.active \in {"", "YoutubeMusicSkill"}
          THEN /\ idle_count = step.was_idle + 1
               /\ IF idle_count >= IdleLimit
                  THEN "IdleCheck" \notin events /\ ~ducking /\ step.resumes = 1
                  ELSE "IdleCheck" \in events /\ ducking /\ step.resumes = 0
          ELSE idle_count = 0 /\ ducking /\ step.resumes = 0

\* the part of C17 that the code keeps
C17_CountWithinLimit ==
    /\ idle_count \in 0..IdleLimit
    /\ (Last("check_for_idle") /\ step.was_ducking) =>
          IF idle_count >= IdleLimit
          THEN "IdleCheck" \notin events /\ ~ducking /\ step.resumes = 1
          ELSE "IdleCheck" \in events /\ ducking /\ step.resumes = 0

\* C18: pause, or stop and do_stop which call it, run while ducking clears
\* ducking; the next check_for_idle tick cancels IdleCheck and returns without
\* resuming; ducking, and with it the automatic resume, comes back only through
\* handle_listener_started.
C18_NoAutoResumeAfterPause ==
    /\ ((Last("pause") \/ Last("stop")) /\ step.was_ducking) =>
          ~ducking /\ step.resumes = 0
    /\ (Last("check_for_idle") /\ ~step.was_ducking) =>
          /\ "IdleCheck" \notin events
          /\ step.cancels = 1
          /\ step.resumes = 0
          /\ ~ducking
          /\ idle_count = step.was_idle
    /\ (Last("check_for_idle") /\ step.resumes > 0) => step.was_ducking
    /\ ducking =>
          ~Last("none") /\ (step.was_ducking \/ Last("handle_listener_started"))

\* a tick that found ducking cleared while IdleCheck was still scheduled
C18_Witness ==
    /\ Last("check_for_idle")
    /\ ~step.was_ducking
    /\ is_playing
    /\ "IdleCheck" \notin events
    /\ step.resumes = 0

\* C19: CPS_start lets no exception out; when the dispatch of the candidate
\* fails (a missing key included) PlaybackFailed is spoken, is_playing and
\* last_played_type stay as they were and the playing intents are not enabled;
\* when it completes is_playing is True and last_played_type is the candidate's
\* type unless that is 'continue'.  last_played_type is never 'continue'.
C19_StartNeverRaises ==
    /\ last_played_type # "continue"
    /\ Last("CPS_start") =>
          /\ step.raised = "None"
          /\ IF Dispatch(step.input.data, step.input.outcome) # ""
             THEN /\ step.dialog = "PlaybackFailed"
                  /\ is_playing = step.was_playing
                  /\ last_played_type = step.was_type
                  /\ intents = step.was_intents
             ELSE /\ step.dialog = "None"
                  /\ is_playing /\ intents
                  /\ last_played_type =
                        IF step.input.data.type = "continue"
                        THEN step.was_type ELSE step.input.data.type

\* an album was playing and a candidate without its 'type' key failed to start
C19_Witness ==
    /\ Last("CPS_start")
    /\ "type" \notin DOMAIN step.input.data
    /\ step.dialog = "PlaybackFailed"
    /\ step.was_type = "album" /\ last_played_type = "album"
    /\ is_playing

C21_IsPlayingMonotone ==
    /\ is_playing = started
    /\ Last("none") => ~is_playing
    /\ ~Last("none") =>
          /\ step.was_playing => is_playing
          /\ (is_playing /\ ~step.was_playing) =>
                /\ Last("CPS_start")
                /\ Dispatch(step.input.data, step.input.outcome) = ""
    /\ Last("stop") =>
          IF step.was_playing
          THEN /\ step.returned = "True"
               /\ step.pauses = 1
               /\ is_playing
          ELSE /\ step.returned = "False"
               /\ step.pauses = 0 /\ step.resumes = 0 /\ step.cancels = 0
               /\ ~is_playing
               /\ ducking = step.was_ducking
               /\ idle_count = step.was_idle
               /\ last_played_type = step.was_type
               /\ intents = step.was_intents
               /\ events = step.was_events

\* a stop() after a successful CPS_start: the audio service was paused, True
\* was returned and the skill still counts as playing
C21_Witness ==
    /\ Last("stop")
    /\ started /\ step.was_playing
    /\ step.returned = "True"
    /\ step.pauses = 1
    /\ is_playing

\* a stop() before any successful CPS_start
C21_WitnessBefore ==
    /\ Last("stop")
    /\ ~started
    /\ step.returned = "False"

====
